---- MODULE Spec2Model ----
(***************************************************************************)
(* A model of wdf_converter.py: batch conversion of WDF files to           *)
(* per-spectrum text files or to one CSV table per file.                   *)
(*                                                                         *)
(* Paths are sequences of path components; the import root is <<"in">>     *)
(* and the export root <<"out">>.  The decoder (WDFReader) is an           *)
(* environment: what it reports for a file is an input of the step that    *)
(* opens the file.                                                         *)
(***************************************************************************)
EXTENDS Integers, Sequences, FiniteSets, TLC

VARIABLES
    pc,             \* position in run_conversion
    export_format,  \* argument of run_conversion
    mirror,         \* argument of run_conversion
    recursive,      \* argument of run_conversion
    importExists,   \* os.path.isdir(wdf_import_dir_path)
    importDirs,     \* directories under the import root (relative paths)
    importFiles,    \* files under the import root: [dir, name]
    badDirs,        \* export-side directories whose creation raises OSError
    exportDirs0,    \* export-side directories before the run
    exportDirs,     \* export-side directories
    exportFiles,    \* export-side files
    warned,         \* logger.warning was called by the mirroring step
    wdf_filenames,  \* the discovered files, in processing order
    log,            \* one record per loop iteration started
    success_count,  \* run_conversion's success counter
    failed,         \* run_conversion's failure map, in insertion order
    raised,         \* the exception run_conversion ended with, "" if none
    total_failed,   \* the failure count of the summary line
    returned,       \* the second component of the returned pair
    xreader,        \* extraction alone: the decoder output
    xresult         \* extraction alone: the results of the two paths

vars == <<pc, export_format, mirror, recursive, importExists, importDirs,
          importFiles, badDirs, exportDirs0, exportDirs, exportFiles, warned,
          wdf_filenames, log, success_count, failed, raised, total_failed,
          returned, xreader, xresult>>

----------------------------------------------------------------------------
(* Bounds *)

MaxFiles == 2       \* files in the import tree
MaxBad == 1         \* export-side directories that cannot be created
MaxCount == 3       \* decoder-reported record count (extraction alone)
MaxPoints == 3      \* decoder-reported points per record (extraction alone)
MaxSize == 6        \* size of a rank-1 raw buffer (extraction alone)
MaxSide == 2        \* side of a rank-2 raw buffer (extraction alone)

----------------------------------------------------------------------------
(* Paths *)

ImportRoot == <<"in">>
ExportRoot == <<"out">>

DirNames == {"s", "t"}
Stems == {"a", "b"}
Exts == {".wdf", ".txt"}
FileNames == {"a.wdf", "b.wdf", "a.txt"}

\* The characters of the names, as code points (str comparison in sorted()).
Chars ==
    [n \in {"in", "s", "t", "a.wdf", "b.wdf", "a.txt"} |->
        CASE n = "in" -> <<105, 110>>
          [] n = "s" -> <<115>>
          [] n = "t" -> <<116>>
          [] n = "a.wdf" -> <<97, 46, 119, 100, 102>>
          [] n = "b.wdf" -> <<98, 46, 119, 100, 102>>
          [] n = "a.txt" -> <<97, 46, 116, 120, 116>>]

\* str(path): the components joined by "/" (code point 47).
RECURSIVE PathCodes(_)
PathCodes(p) ==
    IF p = <<>> THEN <<>>
    ELSE IF Len(p) = 1 THEN Chars[p[1]]
    ELSE Chars[p[1]] \o <<47>> \o PathCodes(Tail(p))

\* u < v for two strings, as Python compares them.
RECURSIVE LexLess(_, _)
LexLess(u, v) ==
    IF v = <<>> THEN FALSE
    ELSE IF u = <<>> THEN TRUE
    ELSE IF Head(u) # Head(v) THEN Head(u) < Head(v)
    ELSE LexLess(Tail(u), Tail(v))

\* sorted(files) for a set of distinct paths.
RECURSIVE sorted(_)
sorted(S) ==
    IF S = {} THEN <<>>
    ELSE LET m == CHOOSE x \in S :
                    \A y \in S \ {x} : LexLess(PathCodes(x), PathCodes(y))
         IN <<m>> \o sorted(S \ {m})

dirname(p) == SubSeq(p, 1, Len(p) - 1)
basename(p) == p[Len(p)]

\* os.path.splitext on a file name: <<stem, extension>>.
splitext(name) ==
    CHOOSE pair \in Stems \X Exts : pair[1] \o pair[2] = name

\* os.path.relpath(p, start) for p at or below start.
relpath(p, start) ==
    IF p = start THEN <<".">> ELSE SubSeq(p, Len(start) + 1, Len(p))

\* os.path.join: an empty component adds nothing.
join(a, b) == a \o b

\* The path of a file of the import tree.
FilePath(f) == join(join(ImportRoot, f.dir), <<f.name>>)

Prefixes(p) == {SubSeq(p, 1, k) : k \in 1..Len(p)}

\* os.makedirs(p, exist_ok=True) raises OSError: some directory it has to
\* create cannot be created.
MakedirsFails(p, dirs) == \E q \in Prefixes(p) : q \notin dirs /\ q \in badDirs

\* The directories after os.makedirs(p, exist_ok=True): the missing ones are
\* created from the top down, up to the first that cannot be created.
Makedirs(p, dirs) ==
    dirs \cup {q \in Prefixes(p) :
                 \A r \in Prefixes(q) : r \in dirs \/ r \notin badDirs}

\* The path as it appears in an error message.
RECURSIVE PathStr(_)
PathStr(p) ==
    IF p = <<>> THEN ""
    ELSE IF Len(p) = 1 THEN p[1]
    ELSE p[1] \o "/" \o PathStr(Tail(p))

\* The directory whose creation fails in os.makedirs(p): the topmost missing
\* one that cannot be created.
FailingDir(p, dirs) ==
    CHOOSE q \in Prefixes(p) :
        /\ q \notin dirs /\ q \in badDirs
        /\ \A r \in Prefixes(q) \ {q} : r \in dirs \/ r \notin badDirs

----------------------------------------------------------------------------
(* The decoder: what WDFReader(path) does for one file.                    *)
(*   opens    FALSE when the constructor raises                            *)
(*   errkind  the "<type>: <message>" of that exception                    *)
(*   count    reader.count, Missing when the attribute is absent           *)
(*   pps      reader.point_per_spectrum, Missing when absent               *)
(*   dims     the shape of np.asarray(reader.spectra): <<size>> or <<a,b>> *)
(*   xlen     len(reader.xdata)                                            *)
(*   wfail    the record index at which writing raises OSError, NoFail     *)
(*            when writing works                                           *)

Missing == -1
NoFail == -1

Reader(opens, errkind, count, pps, dims, xlen, wfail) ==
    [opens |-> opens, errkind |-> errkind, count |-> count, pps |-> pps,
     dims |-> dims, xlen |-> xlen, wfail |-> wfail]

NoReader == Reader(FALSE, "", Missing, Missing, <<0>>, 0, NoFail)

\* The decoder outputs of the batch model.
BatchReaders ==
    { Reader(FALSE, "E1", Missing, Missing, <<0>>, 0, NoFail),  \* cannot open
      Reader(TRUE, "", 1, 2, <<2>>, 2, NoFail),                 \* 1 record
      Reader(TRUE, "", 2, 2, <<4>>, 2, NoFail),                 \* 2 records
      Reader(TRUE, "", 0, 2, <<0>>, 2, NoFail),                 \* no record
      Reader(TRUE, "", 2, 2, <<5>>, 2, NoFail),                 \* odd buffer
      Reader(TRUE, "", 2, 2, <<4>>, 2, 1) }                     \* write error

\* The decoder outputs of the extraction model: every shape within bounds.
AllReaders ==
    { Reader(TRUE, "", c, p, d, 0, NoFail) :
        c \in {Missing} \cup 0..MaxCount,
        p \in {Missing} \cup 0..MaxPoints,
        d \in {<<n>> : n \in 0..MaxSize} \cup ((0..MaxSide) \X (0..MaxSide)) }

\* A decoder output of a well-formed file with at least one record.
ValidReader(rd) ==
    /\ rd.opens /\ rd.count # Missing /\ rd.pps # Missing
    /\ rd.count >= 1 /\ Len(rd.dims) = 1 /\ rd.dims[1] = rd.count * rd.pps
    /\ rd.xlen = rd.pps /\ rd.wfail = NoFail

\* ndarray.size
Size(dims) == IF Len(dims) = 1 THEN dims[1] ELSE dims[1] * dims[2]

Max(a, b) == IF a >= b THEN a ELSE b

\* np.reshape(a, shape): the shape, or a ValueError.
Reshaped(shape) == [raised |-> FALSE, shape |-> shape]
ReshapeError == [raised |-> TRUE, shape |-> <<0, 0>>]
reshape(dims, shape) ==
    IF shape[1] * shape[2] = Size(dims) THEN Reshaped(shape) ELSE ReshapeError

\* Lines 156-164: the record matrix of the text path.
ExtractTxt(rd) ==
    LET first == IF rd.count = Missing \/ rd.pps = Missing
                 THEN ReshapeError      \* AttributeError, caught alike
                 ELSE reshape(rd.dims, <<rd.count, rd.pps>>)
        count == IF rd.count = Missing THEN 1 ELSE rd.count
        n_points == Size(rd.dims) \div Max(1, count)
    IN IF ~first.raised THEN first
       ELSE IF Len(rd.dims) = 2 THEN Reshaped(rd.dims)
       ELSE reshape(rd.dims, <<count, n_points>>)

\* Lines 196-203: the record matrix of the aggregate path.
ExtractCsv(rd) ==
    LET first == IF rd.count = Missing \/ rd.pps = Missing
                 THEN ReshapeError
                 ELSE reshape(rd.dims, <<rd.count, rd.pps>>)
        count == IF rd.count = Missing THEN 1 ELSE rd.count
        points == Size(rd.dims) \div Max(1, count)
    IN IF ~first.raised THEN first
       ELSE IF Len(rd.dims) = 2 THEN Reshaped(rd.dims)
       ELSE reshape(rd.dims, <<count, points>>)

\* What an exporter call leaves behind: the returned pair (written, err),
\* the exception that escaped it ("" when it returned), the file system.
Outcome(written, err, exc, dirs, files) ==
    [written |-> written, err |-> err, exc |-> exc, dirs |-> dirs,
     files |-> files]

None == "None"

\* Record files numbered from 1
TxtName_from_one(idx) == ToString(idx + 1) \o ".txt"

\* Line 172
TxtName(idx) == ToString(idx) \o ".txt"

extract_and_save_spectra_to_txt(rd, dir, dirs, files) ==
    IF ~rd.opens
    THEN Outcome(0, "Failed to open: " \o rd.errkind, "", dirs, files)
    ELSE LET intensities == ExtractTxt(rd)
             n_spectra == intensities.shape[1]
             \* np.column_stack raises when the axis and the row differ in length
             stackFails == rd.xlen # intensities.shape[2]
             stop == IF stackFails THEN 0
                     ELSE IF rd.wfail \in 0..(n_spectra - 1) THEN rd.wfail
                     ELSE n_spectra
             saved == {join(dir, <<TxtName(idx)>>) : idx \in 0..(stop - 1)}
         IN IF intensities.raised
            THEN Outcome(0, None, "ValueError", dirs, files)
            ELSE IF MakedirsFails(dir, dirs)
            THEN Outcome(0, None, "OSError", Makedirs(dir, dirs), files)
            ELSE IF stop < n_spectra
            THEN Outcome(0, None, IF stackFails THEN "ValueError" ELSE "OSError",
                         Makedirs(dir, dirs), files \cup saved)
            ELSE Outcome(n_spectra, None, "", Makedirs(dir, dirs),
                         files \cup saved)

extract_and_save_spectra_to_csv(rd, filename, dirs, files) ==
    IF ~rd.opens
    THEN Outcome(0, "Failed to open: " \o rd.errkind, "", dirs, files)
    ELSE LET intensities == ExtractCsv(rd)
         IN IF intensities.raised
            THEN Outcome(0, None, "ValueError", dirs, files)
            ELSE IF rd.xlen # intensities.shape[2]  \* pd.DataFrame raises
            THEN Outcome(0, "Failed to write CSV: ValueError", "", dirs, files)
            ELSE IF rd.wfail # NoFail \/ dirname(filename) \notin dirs
            THEN Outcome(0, "Failed to write CSV: OSError", "", dirs, files)
            ELSE Outcome(1, None, "", dirs, files \cup {filename})

----------------------------------------------------------------------------
(* get_filenames and mirror_dir_path_tree *)

\* get_filenames searching every depth whatever the recursion flag
get_filenames_always_recursive(files, rec) ==
    sorted({FilePath(f) : f \in {g \in files : splitext(g.name)[2] = ".wdf"}})

\* get_filenames(wdf_import_dir_path, patterns='.wdf', recursive=rec)
get_filenames(files, rec) ==
    sorted({FilePath(f) : f \in {g \in files :
                /\ rec \/ g.dir = <<>>
                /\ splitext(g.name)[2] = ".wdf"}})

\* The orders in which os.walk may visit the import tree: top-down, the
\* subdirectories of a directory in the order the file system lists them.
WalkOrders(D) ==
    {o \in [1..Cardinality(D) -> D] :
        /\ \A i, j \in 1..Cardinality(D) : i # j => o[i] # o[j]
        /\ \A i, j \in 1..Cardinality(D) :
              (Len(o[i]) < Len(o[j]) /\ SubSeq(o[j], 1, Len(o[i])) = o[i]) => i < j}

\* mirror_dir_path_tree over the directories still to visit: the directories
\* afterwards and the exception that ended the walk ("" when none did).
RECURSIVE mirror_dir_path_tree(_, _)
mirror_dir_path_tree(order, dirs) ==
    IF order = <<>> THEN [dirs |-> dirs, exc |-> ""]
    ELSE LET root == join(ImportRoot, Head(order))
             rel0 == relpath(root, ImportRoot)
             rel == IF rel0 = <<".">> THEN <<>> ELSE rel0
             target == join(ExportRoot, rel)
         IN IF MakedirsFails(target, dirs)
            THEN [dirs |-> Makedirs(target, dirs), exc |-> "OSError"]
            ELSE mirror_dir_path_tree(Tail(order), Makedirs(target, dirs))

----------------------------------------------------------------------------
(* run_conversion *)

\* str.lower() on the formats of the model
Lower(fmt) ==
    CASE fmt = "TXT" -> "txt"
      [] fmt = "CSV" -> "csv"
      [] OTHER -> fmt

Formats == {"txt", "CSV", "xml"}

\* Lines 261-262
stem(wdf) == splitext(basename(wdf))[1]

\* Lines 272-274
rel_dir(wdf) ==
    LET rel == relpath(dirname(wdf), ImportRoot)
    IN IF rel = <<".">> THEN <<>> ELSE rel

\* The text location without the relative directory
txt_export_subdir_flat(wdf, m) == join(ExportRoot, <<stem(wdf)>>)

\* Lines 277-280
txt_export_subdir(wdf, m) ==
    IF m THEN join(join(ExportRoot, rel_dir(wdf)), <<stem(wdf)>>)
    ELSE join(ExportRoot, <<stem(wdf)>>)

\* Lines 300-303
csv_filename(wdf, m) ==
    IF m THEN join(join(ExportRoot, rel_dir(wdf)), <<stem(wdf) \o ".csv">>)
    ELSE join(ExportRoot, <<stem(wdf) \o ".csv">>)

\* failed.setdefault(err, []).append(b)
setdefault_append(map, err, b) ==
    IF \E i \in 1..Len(map) : map[i].err = err
    THEN [i \in 1..Len(map) |->
            IF map[i].err = err
            THEN [map[i] EXCEPT !.files = Append(@, b)]
            ELSE map[i]]
    ELSE Append(map, [err |-> err, files |-> <<b>>])

\* sum(len(v) for v in failed.values())
RECURSIVE SumLen(_)
SumLen(map) ==
    IF map = <<>> THEN 0 ELSE Len(Head(map).files) + SumLen(Tail(map))

\* list({b for files in failed.values() for b in files}): a set of basenames
FailedBasenames(map) ==
    UNION {{map[i].files[j] : j \in 1..Len(map[i].files)} : i \in 1..Len(map)}

\* What one loop iteration did: the file, its output location, whether the
\* exporter (and with it the decoder) was called and on which decoder output,
\* the exporter's returned pair and the exception that ended the iteration.
Iteration(wdf, dest, called, rd, written, err, exc) ==
    [wdf |-> wdf, dest |-> dest, called |-> called, rd |-> rd,
     written |-> written, err |-> err, exc |-> exc]

BadCandidates ==
    {ExportRoot, <<"out", "s">>, <<"out", "t">>, <<"out", "a">>}

\* The variables of the extraction model, unused by the batch.
NotRun == [run |-> FALSE, raised |-> FALSE, shape |-> <<0, 0>>]
ExtractionIdle ==
    /\ xreader = NoReader
    /\ xresult = [txt |-> NotRun, csv |-> NotRun]

Init ==
    /\ pc = "start"
    /\ export_format \in Formats
    /\ mirror \in BOOLEAN
    /\ recursive \in BOOLEAN
    /\ importExists \in BOOLEAN
    /\ importDirs \in {IF importExists THEN D \cup {<<>>} ELSE {} :
                         D \in SUBSET {<<n>> : n \in DirNames}}
    /\ importFiles \in {F \in SUBSET {[dir |-> d, name |-> n] :
                                        d \in importDirs, n \in FileNames} :
                          Cardinality(F) <= MaxFiles}
    /\ exportDirs0 \in {{}, {ExportRoot}}
    /\ exportDirs = exportDirs0
    /\ badDirs \in {B \in SUBSET (BadCandidates \ exportDirs0) :
                      Cardinality(B) <= MaxBad}
    /\ exportFiles = {}
    /\ warned = FALSE
    /\ wdf_filenames = <<>>
    /\ log = <<>>
    /\ success_count = 0
    /\ failed = <<>>
    /\ raised = ""
    /\ total_failed = 0
    /\ returned = {}
    /\ ExtractionIdle

Raise(exc) ==
    /\ pc' = "raised"
    /\ raised' = exc

\* Lines 231-237: the import directory is checked, the export root created.
Start ==
    /\ pc = "start"
    /\ IF ~importExists
       THEN /\ Raise("FileNotFoundError: import directory")
            /\ UNCHANGED exportDirs
       ELSE IF MakedirsFails(ExportRoot, exportDirs)
       THEN /\ Raise("OSError: export directory")
            /\ UNCHANGED exportDirs
       ELSE /\ exportDirs' = Makedirs(ExportRoot, exportDirs)
            /\ pc' = IF mirror THEN "mirror" ELSE "discover"
            /\ UNCHANGED raised
    /\ UNCHANGED <<export_format, mirror, recursive, importExists, importDirs,
                   importFiles, badDirs, exportDirs0, exportFiles, warned,
                   wdf_filenames, log, success_count, failed, total_failed,
                   returned, xreader, xresult>>

\* The mirroring step without the try/except around it
Mirror_uncaught ==
    /\ pc = "mirror"
    /\ \E order \in WalkOrders(importDirs) :
          LET m == mirror_dir_path_tree(order, exportDirs)
          IN /\ exportDirs' = m.dirs
             /\ IF m.exc # ""
                THEN Raise(m.exc)
                ELSE pc' = "discover" /\ UNCHANGED raised
    /\ UNCHANGED <<export_format, mirror, recursive, importExists, importDirs,
                   importFiles, badDirs, exportDirs0, exportFiles, warned,
                   wdf_filenames, log, success_count, failed,
                   total_failed, returned, xreader, xresult>>

\* Lines 240-244: the directory tree is mirrored; an exception is logged.
Mirror ==
    /\ pc = "mirror"
    /\ \E order \in WalkOrders(importDirs) :
          LET m == mirror_dir_path_tree(order, exportDirs)
          IN /\ exportDirs' = m.dirs
             /\ warned' = (m.exc # "")
    /\ pc' = "discover"
    /\ UNCHANGED <<export_format, mirror, recursive, importExists, importDirs,
                   importFiles, badDirs, exportDirs0, exportFiles,
                   wdf_filenames, log, success_count, failed, raised,
                   total_failed, returned, xreader, xresult>>

\* Lines 247-258: discovery; no file found is an error.
Discover ==
    /\ pc = "discover"
    /\ LET found == get_filenames(importFiles, recursive)
       IN IF found = <<>>
          THEN /\ Raise("FileNotFoundError: no WDF files")
               /\ UNCHANGED wdf_filenames
          ELSE /\ wdf_filenames' = found
               /\ pc' = "loop"
               /\ UNCHANGED raised
    /\ UNCHANGED <<export_format, mirror, recursive, importExists, importDirs,
                   importFiles, badDirs, exportDirs0, exportDirs, exportFiles,
                   warned, log, success_count, failed, total_failed, returned,
                   xreader, xresult>>

\* The file of the next loop iteration.
NextWdf == wdf_filenames[Len(log) + 1]

\* The exporter's result counted as a success also when nothing was written
Account_zero_succeeds(wdf, out, fallback) ==
    IF out.exc # ""
    THEN /\ Raise(out.exc)
         /\ UNCHANGED <<success_count, failed>>
    ELSE /\ success_count' = IF out.written >= 0 THEN success_count + 1
                             ELSE success_count
         /\ failed' = IF out.written >= 0 THEN failed
                      ELSE setdefault_append(
                               failed,
                               IF out.err = None THEN fallback ELSE out.err,
                               basename(wdf))
         /\ UNCHANGED <<pc, raised>>

\* Lines 290-298 and 313-321: the exporter's result is counted or recorded.
Account(wdf, out, fallback) ==
    IF out.exc # ""
    THEN /\ Raise(out.exc)
         /\ UNCHANGED <<success_count, failed>>
    ELSE /\ success_count' = IF out.written > 0 THEN success_count + 1
                             ELSE success_count
         /\ failed' = IF out.written > 0 THEN failed
                      ELSE setdefault_append(
                               failed,
                               IF out.err = None THEN fallback ELSE out.err,
                               basename(wdf))
         /\ UNCHANGED <<pc, raised>>

\* Lines 260-298: one loop iteration in text format.
ConvertTxt ==
    /\ pc = "loop" /\ Len(log) < Len(wdf_filenames)
    /\ Lower(export_format) = "txt"
    /\ LET wdf == NextWdf
           subdir == txt_export_subdir(wdf, mirror)
       IN IF MakedirsFails(subdir, exportDirs)
          THEN LET err == "OS error creating output dir: "
                              \o PathStr(FailingDir(subdir, exportDirs))
               IN /\ failed' = setdefault_append(failed, err, basename(wdf))
                  /\ log' = Append(log, Iteration(wdf, subdir, FALSE,
                                                  NoReader, 0, err, ""))
               /\ exportDirs' = Makedirs(subdir, exportDirs)
               /\ UNCHANGED <<pc, raised, success_count, exportFiles>>
          ELSE \E rd \in BatchReaders :
                  LET out == extract_and_save_spectra_to_txt(
                                 rd, subdir, Makedirs(subdir, exportDirs),
                                 exportFiles)
                  IN /\ exportDirs' = out.dirs
                     /\ exportFiles' = out.files
                     /\ log' = Append(log, Iteration(wdf, subdir, TRUE, rd,
                                                     out.written, out.err,
                                                     out.exc))
                     /\ Account(wdf, out, "No spectra written")
    /\ UNCHANGED <<export_format, mirror, recursive, importExists, importDirs,
                   importFiles, badDirs, exportDirs0, warned, wdf_filenames,
                   total_failed, returned, xreader, xresult>>

\* Lines 260-274 and 299-321: one loop iteration in CSV format.
ConvertCsv ==
    /\ pc = "loop" /\ Len(log) < Len(wdf_filenames)
    /\ Lower(export_format) # "txt" /\ Lower(export_format) = "csv"
    /\ LET wdf == NextWdf
           filename == csv_filename(wdf, mirror)
       IN IF MakedirsFails(dirname(filename), exportDirs)
          THEN LET err == "OS error creating CSV output dir: "
                              \o PathStr(FailingDir(dirname(filename),
                                                    exportDirs))
               IN /\ failed' = setdefault_append(failed, err, basename(wdf))
                  /\ log' = Append(log, Iteration(wdf, filename, FALSE,
                                                  NoReader, 0, err, ""))
               /\ exportDirs' = Makedirs(dirname(filename), exportDirs)
               /\ UNCHANGED <<pc, raised, success_count, exportFiles>>
          ELSE \E rd \in BatchReaders :
                  LET out == extract_and_save_spectra_to_csv(
                                 rd, filename,
                                 Makedirs(dirname(filename), exportDirs),
                                 exportFiles)
                  IN /\ exportDirs' = out.dirs
                     /\ exportFiles' = out.files
                     /\ log' = Append(log, Iteration(wdf, filename, TRUE, rd,
                                                     out.written, out.err,
                                                     out.exc))
                     /\ Account(wdf, out, "CSV write failed")
    /\ UNCHANGED <<export_format, mirror, recursive, importExists, importDirs,
                   importFiles, badDirs, exportDirs0, warned, wdf_filenames,
                   total_failed, returned, xreader, xresult>>

\* The unknown-format branch recording the file in the failure map
UnknownFormat_recorded ==
    /\ pc = "loop" /\ Len(log) < Len(wdf_filenames)
    /\ Lower(export_format) # "txt" /\ Lower(export_format) # "csv"
    /\ log' = Append(log, Iteration(NextWdf, <<>>, FALSE, NoReader, 0,
                                    "Unknown export format", ""))
    /\ failed' = setdefault_append(failed, "Unknown export format",
                                   basename(NextWdf))
    /\ UNCHANGED <<pc, raised, export_format, mirror, recursive, importExists,
                   importDirs, importFiles, badDirs, exportDirs0, exportDirs,
                   exportFiles, warned, wdf_filenames, success_count,
                   total_failed, returned, xreader, xresult>>

\* Lines 260-274 and 322-324: one loop iteration with another format. The
\* error is logged; failed is a dict, and failed.append raises AttributeError.
UnknownFormat ==
    /\ pc = "loop" /\ Len(log) < Len(wdf_filenames)
    /\ Lower(export_format) # "txt" /\ Lower(export_format) # "csv"
    /\ log' = Append(log, Iteration(NextWdf, <<>>, FALSE, NoReader, 0, None,
                                    "AttributeError"))
    /\ Raise("AttributeError")
    /\ UNCHANGED <<export_format, mirror, recursive, importExists, importDirs,
                   importFiles, badDirs, exportDirs0, exportDirs, exportFiles,
                   warned, wdf_filenames, success_count, failed, total_failed,
                   returned, xreader, xresult>>

\* Lines 326-339: the summary and the returned pair.
Finish ==
    /\ pc = "loop" /\ Len(log) = Len(wdf_filenames)
    /\ total_failed' = SumLen(failed)
    /\ returned' = FailedBasenames(failed)
    /\ pc' = "done"
    /\ UNCHANGED <<export_format, mirror, recursive, importExists, importDirs,
                   importFiles, badDirs, exportDirs0, exportDirs, exportFiles,
                   warned, wdf_filenames, log, success_count, failed, raised,
                   xreader, xresult>>

Next ==
    \/ Start
    \/ Mirror
    \/ Discover
    \/ ConvertTxt
    \/ ConvertCsv
    \/ UnknownFormat
    \/ Finish

Spec == Init /\ [][Next]_vars

----------------------------------------------------------------------------
(* Extraction alone: the two exporters' extraction on any decoder output *)

BatchIdle ==
    /\ export_format = "txt" /\ mirror = FALSE /\ recursive = FALSE
    /\ importExists = TRUE /\ importDirs = {<<>>} /\ importFiles = {}
    /\ badDirs = {} /\ exportDirs0 = {} /\ exportDirs = {}
    /\ exportFiles = {} /\ warned = FALSE /\ wdf_filenames = <<>>
    /\ log = <<>> /\ success_count = 0 /\ failed = <<>> /\ raised = ""
    /\ total_failed = 0 /\ returned = {}

InitExtract ==
    /\ pc = "extract"
    /\ xreader \in AllReaders
    /\ xresult = [txt |-> NotRun, csv |-> NotRun]
    /\ BatchIdle

Ran(m) == [run |-> TRUE, raised |-> m.raised, shape |-> m.shape]

\* Lines 153-166 on the decoder output
RunExtractTxt ==
    /\ pc = "extract" /\ ~xresult.txt.run
    /\ xresult' = [xresult EXCEPT !.txt = Ran(ExtractTxt(xreader))]
    /\ UNCHANGED <<pc, export_format, mirror, recursive, importExists,
                   importDirs, importFiles, badDirs, exportDirs0, exportDirs,
                   exportFiles, warned, wdf_filenames, log, success_count,
                   failed, raised, total_failed, returned, xreader>>

\* Lines 193-203 on the decoder output
RunExtractCsv ==
    /\ pc = "extract" /\ ~xresult.csv.run
    /\ xresult' = [xresult EXCEPT !.csv = Ran(ExtractCsv(xreader))]
    /\ UNCHANGED <<pc, export_format, mirror, recursive, importExists,
                   importDirs, importFiles, badDirs, exportDirs0, exportDirs,
                   exportFiles, warned, wdf_filenames, log, success_count,
                   failed, raised, total_failed, returned, xreader>>

NextExtract == RunExtractTxt \/ RunExtractCsv

SpecExtract == InitExtract /\ [][NextExtract]_vars

----------------------------------------------------------------------------
(* Properties *)

Terminal == pc \in {"done", "raised"}
KnownFormat == Lower(export_format) \in {"txt", "csv"}
Attempted == [i \in 1..Len(log) |-> log[i].wdf]

\* The decoder output is consistent: the buffer holds count * pps samples and
\* the axis has pps points.
WellShaped(rd) ==
    /\ rd.count # Missing /\ rd.pps # Missing
    /\ rd.dims = <<rd.count * rd.pps>> /\ rd.xlen = rd.pps

\* C1: with format txt or csv and a non-empty discovery, whatever per-file
\* failure happens (open failure, output-directory failure, write failure),
\* the batch ends normally having attempted every discovered file once, in
\* discovery order, and successes plus failures equal the discovered files.
C1_NoPerFileFailureAborts ==
    ( /\ Terminal /\ KnownFormat /\ wdf_filenames # <<>>
      /\ \A i \in 1..Len(log) :
            (log[i].called /\ log[i].rd.opens) => WellShaped(log[i].rd) )
    => ( /\ pc = "done"
         /\ Attempted = wdf_filenames
         /\ success_count + total_failed = Len(wdf_filenames) )

\* C2: with an unrecognized format run_conversion never returns normally: it
\* ends in an exception at the first file at the latest, no file is opened
\* or exported, and nothing is recorded in the failure map.
C2_UnknownFormatFatal ==
    ~KnownFormat =>
        /\ pc # "done"
        /\ Terminal => raised # ""
        /\ Len(log) <= 1
        /\ Len(log) = 1 => (pc = "raised" /\ raised = "AttributeError")
        /\ \A i \in 1..Len(log) : ~log[i].called
        /\ failed = <<>> /\ success_count = 0 /\ exportFiles = {}

\* An unknown format met two discovered files and aborted at the first.
C2_Witness ==
    /\ ~KnownFormat /\ pc = "raised" /\ raised = "AttributeError"
    /\ Len(wdf_filenames) = 2 /\ Len(log) = 1

\* C3: extraction raises in neither path, whatever the decoder reports.
C3_ExtractionNeverRaises ==
    /\ xresult.txt.run => ~xresult.txt.raised
    /\ xresult.csv.run => ~xresult.csv.raised

\* No file of the import tree matches '.wdf' at the depth searched.
NoMatch ==
    \A f \in importFiles :
        ~(f.name \in {st \o ".wdf" : st \in Stems}) \/ (~recursive /\ f.dir # <<>>)

DiscoveryFailed ==
    /\ Terminal /\ importExists /\ ExportRoot \notin badDirs /\ NoMatch

\* C4 as stated: after the discovery error no output directory has been
\* created.
C4_NoDirectoryCreated ==
    DiscoveryFailed => exportDirs = exportDirs0

\* C4 amended: the run ends in the discovery error with no file opened and no
\* per-file output; the export root exists, and beside it only directories
\* mirrored from the import tree, and those only when mirroring is on.
C4_OnlyRootAndMirrored ==
    DiscoveryFailed =>
        /\ pc = "raised" /\ raised = "FileNotFoundError: no WDF files"
        /\ log = <<>> /\ exportFiles = {}
        /\ ExportRoot \in exportDirs
        /\ exportDirs \subseteq
              {ExportRoot} \cup
              (IF mirror THEN {ExportRoot \o d : d \in importDirs} ELSE {})

\* The discovery error with the export root and a mirrored directory created.
C4_Witness ==
    /\ DiscoveryFailed /\ raised = "FileNotFoundError: no WDF files"
    /\ importFiles # {} /\ exportDirs0 = {}
    /\ exportDirs = {ExportRoot, <<"out", "s">>}

\* The category a failed iteration is recorded under.
Category(it) ==
    IF it.err # None THEN it.err
    ELSE IF Lower(export_format) = "txt" THEN "No spectra written"
    ELSE "CSV write failed"

FailedAt(i) == log[i].exc = "" /\ log[i].written = 0

\* The basenames of the failed iterations of a category, in processing order.
RECURSIVE FilesOf(_, _)
FilesOf(cat, lg) ==
    IF lg = <<>> THEN <<>>
    ELSE (IF lg[1].exc = "" /\ lg[1].written = 0 /\ Category(lg[1]) = cat
          THEN <<basename(lg[1].wdf)>> ELSE <<>>) \o FilesOf(cat, Tail(lg))

FirstOf(cat) ==
    CHOOSE i \in 1..Len(log) :
        /\ FailedAt(i) /\ Category(log[i]) = cat
        /\ \A j \in 1..(i - 1) : ~(FailedAt(j) /\ Category(log[j]) = cat)

\* C5: at the end every failed file is listed once, under its category, each
\* list in processing order, the categories by first occurrence, and the
\* number of failures returned to the caller is the number of failed files.
C5_FailuresReported ==
    pc = "done" =>
        LET nfailed == Cardinality({i \in 1..Len(log) : FailedAt(i)})
        IN /\ success_count = Len(log) - nfailed
           /\ total_failed = nfailed
           /\ \A k \in 1..Len(failed) :
                 failed[k].files = FilesOf(failed[k].err, log)
           /\ \A k, l \in 1..Len(failed) :
                 k < l => FirstOf(failed[k].err) < FirstOf(failed[l].err)
           /\ Cardinality(returned) = nfailed

FilesIn(dir) == {f \in exportFiles : dirname(f) = dir}
RecordFiles(dir, n) == {dir \o <<ToString(i) \o ".txt">> : i \in 0..(n - 1)}
OpenFailed(i) == log[i].called /\ ~log[i].rd.opens
Valid(i) == log[i].called /\ ValidReader(log[i].rd)

\* A finished text batch without mirroring in which some files failed to open
\* and all the others were valid.
SomeOpenFailures ==
    /\ pc = "done" /\ Lower(export_format) = "txt" /\ ~mirror
    /\ \A i \in 1..Len(log) : OpenFailed(i) \/ Valid(i)
    /\ \E i \in 1..Len(log) : OpenFailed(i)
    /\ \E i \in 1..Len(log) : Valid(i)

OpenFailuresCounted ==
    /\ success_count = Cardinality({i \in 1..Len(log) : Valid(i)})
    /\ \A i \in 1..Len(log) : OpenFailed(i) =>
          \E k \in 1..Len(failed) :
             /\ failed[k].err = "Failed to open: " \o log[i].rd.errkind
             /\ failed[k].files = FilesOf(failed[k].err, log)

\* C6 as stated: the subdirectory <export_root>/<stem> exists for the valid
\* files only, and holds exactly 0.txt .. N-1.txt.
C6_SubdirForValidOnly ==
    SomeOpenFailures =>
        /\ OpenFailuresCounted
        /\ \A i \in 1..Len(log) : Valid(i) =>
              /\ log[i].dest \in exportDirs
              /\ FilesIn(log[i].dest) = RecordFiles(log[i].dest, log[i].rd.count)
        /\ \A i \in 1..Len(log) : OpenFailed(i) => log[i].dest \notin exportDirs

\* C6 amended: the subdirectory <export_root>/<stem> exists for every file,
\* also for one whose open failed; it holds exactly the record files
\* 0.txt .. N-1.txt of the valid files with that stem, none for a stem that
\* only failed files have.
C6_SubdirForEveryFile ==
    SomeOpenFailures =>
        /\ OpenFailuresCounted
        /\ \A i \in 1..Len(log) :
              /\ \E st \in Stems : /\ st \o ".wdf" = basename(log[i].wdf)
                                   /\ log[i].dest = <<"out", st>>
              /\ log[i].dest \in exportDirs
              /\ FilesIn(log[i].dest) =
                    UNION {RecordFiles(log[i].dest, log[j].rd.count) :
                             j \in {k \in 1..Len(log) :
                                      Valid(k) /\ log[k].dest = log[i].dest}}

\* One file failed to open and left an empty subdirectory, another was
\* converted into its two record files.
C6_Witness ==
    /\ SomeOpenFailures
    /\ \E i, j \in 1..Len(log) :
          /\ OpenFailed(i) /\ Valid(j) /\ log[i].dest # log[j].dest
          /\ log[i].dest \in exportDirs /\ FilesIn(log[i].dest) = {}
          /\ log[j].rd.count = 2
          /\ FilesIn(log[j].dest) = {log[j].dest \o <<"0.txt">>,
                                     log[j].dest \o <<"1.txt">>}

\* C7: the output location of every file attempted is the export root, then
\* the file's directory relative to the import root when mirroring, then the
\* stem (text) or <stem>.csv (aggregate); a converted file's output is there.
C7_OutputLocation ==
    KnownFormat =>
        \A i \in 1..Len(log) :
            \E f \in importFiles : \E st \in Stems :
                LET base == IF mirror THEN ExportRoot \o f.dir ELSE ExportRoot
                    done == log[i].exc = "" /\ log[i].written > 0
                IN /\ <<"in">> \o f.dir \o <<f.name>> = log[i].wdf
                   /\ st \o ".wdf" = f.name
                   /\ Lower(export_format) = "txt" =>
                         /\ log[i].dest = base \o <<st>>
                         /\ done => /\ log[i].dest \in exportDirs
                                    /\ log[i].dest \o <<"0.txt">> \in exportFiles
                   /\ Lower(export_format) = "csv" =>
                         /\ log[i].dest = base \o <<st \o ".csv">>
                         /\ done => log[i].dest \in exportFiles

\* A nested file converted to text under its mirrored directory.
C7_Witness ==
    /\ mirror /\ Lower(export_format) = "txt"
    /\ \E i \in 1..Len(log) :
          /\ log[i].wdf = <<"in", "s", "a.wdf">>
          /\ log[i].dest = <<"out", "s", "a">>
          /\ log[i].written > 0
          /\ <<"out", "s", "a", "0.txt">> \in exportFiles

\* The shapes the fallback policy allows for a decoder output: (count, pps)
\* when they multiply to the buffer size; else the buffer's own shape when it
\* is rank-2; else N rows of size \div max(1, N), N being 1 for a missing
\* count and, for a zero count, 1 or 0 (both readings are accepted).
C8_Expected(rd) ==
    LET size == IF Len(rd.dims) = 1 THEN rd.dims[1] ELSE rd.dims[1] * rd.dims[2]
        n == IF rd.count = Missing \/ rd.count = 0 THEN 1 ELSE rd.count
    IN IF rd.count # Missing /\ rd.pps # Missing /\ rd.count * rd.pps = size
       THEN {<<rd.count, rd.pps>>}
       ELSE IF Len(rd.dims) = 2 THEN {rd.dims}
       ELSE {<<n, size \div n>>} \cup
            (IF rd.count = 0 THEN {<<0, size \div n>>} ELSE {})

\* C8: in both paths extraction yields a shape of the fallback policy, first
\* success wins, and the two paths yield the same shape.
C8_FallbackOrder ==
    /\ xresult.txt.run =>
          ~xresult.txt.raised /\ xresult.txt.shape \in C8_Expected(xreader)
    /\ xresult.csv.run =>
          ~xresult.csv.raised /\ xresult.csv.shape \in C8_Expected(xreader)
    /\ (xresult.txt.run /\ xresult.csv.run) =>
          xresult.txt.shape = xresult.csv.shape

\* The decoder opened a file that holds no record.
ZeroRecords(rd) ==
    /\ rd.opens /\ rd.count = 0 /\ rd.dims = <<0>>
    /\ rd.pps # Missing /\ rd.xlen = rd.pps /\ rd.wfail = NoFail

Succeeded == {i \in 1..Len(log) : log[i].exc = "" /\ log[i].written > 0}

\* C9: a file that opens with no record: in text format the exporter returns
\* 0 without an error, the file is recorded under "No spectra written" and
\* not counted; in CSV format the exporter writes the table, returns 1 and
\* the file is counted as a success.
C9_ZeroRecords ==
    \A i \in 1..Len(log) :
        (log[i].called /\ ZeroRecords(log[i].rd)) =>
            /\ log[i].exc = "" /\ log[i].err = None
            /\ success_count = Cardinality(Succeeded)
            /\ Lower(export_format) = "txt" =>
                  /\ log[i].written = 0 /\ i \notin Succeeded
                  /\ \E k \in 1..Len(failed) :
                        /\ failed[k].err = "No spectra written"
                        /\ failed[k].files = FilesOf("No spectra written", log)
                        /\ \E j \in 1..Len(failed[k].files) :
                              failed[k].files[j] = basename(log[i].wdf)
            /\ Lower(export_format) = "csv" =>
                  /\ log[i].written = 1 /\ i \in Succeeded
                  /\ log[i].dest \in exportFiles
                  /\ \A k \in 1..Len(failed) :
                        failed[k].files = FilesOf(failed[k].err, log)

\* A text batch ended with a record-less file as its only failure.
C9_Witness ==
    /\ pc = "done" /\ Lower(export_format) = "txt"
    /\ \E i \in 1..Len(log) : log[i].called /\ ZeroRecords(log[i].rd)
    /\ failed = <<[err |-> "No spectra written",
                   files |-> <<basename(log[Len(log)].wdf)>>]>>
    /\ success_count = Len(log) - 1 /\ total_failed = 1

MirrorTargets == {ExportRoot \o d : d \in importDirs}
Creatable(t) == Prefixes(t) \cap badDirs = {}

\* C10 as stated: after mirroring, every source directory whose creation can
\* succeed exists under the export root.
C10_MirrorContinues ==
    (mirror /\ pc = "discover") =>
        \A t \in MirrorTargets : Creatable(t) => t \in exportDirs

\* C10 amended: the mirroring step never ends the batch and goes on to
\* discovery; it creates directories only and no file; it stops at the first
\* directory whose creation fails, so that a directory exists afterwards
\* exactly when it existed before or it and all those walked before it could
\* be created; walking again in the same order changes nothing.
C10_MirrorStopsAtFirstFailure ==
    [][pc = "mirror" =>
        /\ pc' = "discover" /\ raised' = ""
        /\ exportFiles' = exportFiles
        /\ exportDirs \subseteq exportDirs'
        /\ warned' = (\E t \in MirrorTargets : t \notin exportDirs')
        /\ \E order \in WalkOrders(importDirs) :
              /\ \A k \in 1..Len(order) :
                    (ExportRoot \o order[k] \in exportDirs') <=>
                       \/ ExportRoot \o order[k] \in exportDirs
                       \/ \A j \in 1..k : Creatable(ExportRoot \o order[j])
              /\ mirror_dir_path_tree(order, exportDirs').dirs = exportDirs'
      ]_vars

\* Mirroring failed on one directory and skipped one it could have created;
\* the batch still converted a file.
C10_Witness ==
    /\ warned /\ pc = "done" /\ success_count >= 1
    /\ \E t \in MirrorTargets : Creatable(t) /\ t \notin exportDirs

====
